---- MODULE Spec2Model ----
(***************************************************************************)
(* pyspread: the undo-integrated cell-mutation model.                      *)
(*                                                                         *)
(* The grid (src/src/grid.py), the undoable commands (src/src/commands.py),*)
(* the undo stack owned by the main window (src/src/pyspread.py) and the   *)
(* file workflows (src/src/workflows.py) as one state machine.  Every      *)
(* action is one event handler, run to completion on the UI thread.        *)
(*                                                                         *)
(* CodeArray, CellAttributes and Selection (src/model, src/lib) are        *)
(* collaborators whose code is not part of the sources at hand; they are   *)
(* modelled from their interface contracts and from their call sites.      *)
(***************************************************************************)
EXTENDS Integers, Sequences, FiniteSets, TLC

\* ------------------------------------------------------------------ bounds

MaxRows == 2
MaxCols == 2
MaxTables == 2
MaxHeight == 3
MaxSteps == 4
MaxUnredo == 2

\* ------------------------------------------------------------- value sets

None == "None"
Codes == {"a", "b"}
NoArea == << >>
NoCache == [cached |-> FALSE]

DefaultSectionSize == 1
Heights == 1..MaxHeight

Cells == (0..(MaxRows - 1)) \X (0..(MaxCols - 1))
Keys == (0..(MaxRows - 1)) \X (0..(MaxCols - 1)) \X (0..(MaxTables - 1))
FullShape == <<MaxRows, MaxCols, MaxTables>>
NewShapes == {<<1, 1, 1>>, FullShape}

Rect(top, left, bottom, right) ==
    {c \in Cells : top <= c[1] /\ c[1] <= bottom /\ left <= c[2] /\ c[2] <= right}

Min(S) == CHOOSE x \in S : \A y \in S : x <= y
Max(S) == CHOOSE x \in S : \A y \in S : y <= x

InShape(key, shp) == key[1] < shp[1] /\ key[2] < shp[2] /\ key[3] < shp[3]

FormatKinds == {"format", "merge", "align", "renderer"}

VARIABLES
    shape,                  \* code_array.shape: <<rows, columns, tables>>
    dict_grid,              \* code_array.dict_grid: key -> code, None if absent
    cell_attributes,        \* code_array.cell_attributes: the attribute stack
    attr_cache,             \* per-coordinate cache of effective attributes
    row_heights,            \* code_array.row_heights: <<row, table>> -> height, 0 unset
    col_widths,             \* code_array.col_widths: <<column, table>> -> width, 0 unset
    macros,                 \* code_array.macros: the macro code, "" if none
    view_row,               \* QTableView row heights
    view_col,               \* QTableView column widths
    spans,                  \* QTableView cell spans: set of <<top, left, bottom, right>>
    undo_stack,             \* QUndoStack: the commands
    index,                  \* QUndoStack: number of applied commands
    current,                \* Grid.currentIndex(): <<row, column>>
    table,                  \* Grid.table
    selection,              \* Grid.selection: set of <<row, column>>
    undo_resizing_row,      \* Grid.undo_resizing_row
    undo_resizing_column,   \* Grid.undo_resizing_column
    app_changed,            \* application_states.changed_since_save
    settings_changed,       \* settings.changed_since_save
    title,                  \* window title, a sequence of text pieces
    safe_mode,              \* code_array.safe_mode
    last_file_input_path,   \* settings.last_file_input_path
    loading,                \* file_open: the file being read and the lines read
    saving,                 \* _save: the destination and the temporary file
    disk,                   \* the files: path -> the lines of the file
    sig,                    \* the signature files: path -> the lines signed
    running,                \* the application has not exited
    err,                    \* an exception left a handler
    last,                   \* bookkeeping: label of the last handler
    ghost,                  \* bookkeeping: what the last handlers saw
    rt,                     \* bookkeeping: apply / undo-all / redo-all run
    steps                   \* bookkeeping: number of handlers run

prog == <<shape, dict_grid, cell_attributes, attr_cache, row_heights, col_widths, macros,
          view_row, view_col, spans, undo_stack, index, current, table, selection,
          undo_resizing_row, undo_resizing_column, app_changed, settings_changed,
          title, safe_mode, last_file_input_path, loading, saving, disk, sig,
          running, err>>
vars == <<prog, last, ghost, rt, steps>>

\* The program state as one record, so that handlers compose as functions.
S == [shape |-> shape, dict_grid |-> dict_grid, cell_attributes |-> cell_attributes,
      attr_cache |-> attr_cache, row_heights |-> row_heights, col_widths |-> col_widths,
      macros |-> macros,
      view_row |-> view_row, view_col |-> view_col, spans |-> spans,
      undo_stack |-> undo_stack, index |-> index, current |-> current,
      table |-> table, selection |-> selection,
      undo_resizing_row |-> undo_resizing_row,
      undo_resizing_column |-> undo_resizing_column,
      app_changed |-> app_changed, settings_changed |-> settings_changed,
      title |-> title, safe_mode |-> safe_mode,
      last_file_input_path |-> last_file_input_path, loading |-> loading,
      saving |-> saving, disk |-> disk, sig |-> sig, running |-> running, err |-> err]

\* --------------------------------------------------------- the cell store

\* code_array(key): the code of a cell, None if the cell holds none
CodeArray_call(s, key) == s.dict_grid[key]

\* key in code_array: the key lies inside the grid shape
CodeArray_contains(s, key) == InShape(key, s.shape)

\* code_array[key] = value: a sparse mapping, written without a shape check
CodeArray_setitem(s, key, value) == [s EXCEPT !.dict_grid[key] = value]

\* code_array.shape = value: cells beyond the new shape are deleted
CodeArray_set_shape(s, value) ==
    [s EXCEPT !.shape = value,
              !.dict_grid = [k \in Keys |->
                                IF InShape(k, value) THEN s.dict_grid[k] ELSE None]]

\* ---------------------------------------------------- the attribute stack

DefaultAttr == [bgcolor |-> <<255, 255, 255>>, angle |-> <<0>>,
                merge_area |-> NoArea, renderer |-> "text",
                bordercolor_bottom |-> <<0, 0, 0>>, bordercolor_right |-> <<0, 0, 0>>,
                borderwidth_bottom |-> 1, borderwidth_right |-> 1]
Props == {"bgcolor", "angle", "merge_area", "renderer",
          "bordercolor_bottom", "bordercolor_right",
          "borderwidth_bottom", "borderwidth_right"}

Matches(stack, key, p) ==
    {i \in 1..Len(stack) : /\ stack[i].table = key[3]
                           /\ <<key[1], key[2]>> \in stack[i].selection
                           /\ stack[i].name = p}

\* effective(coord): per property the most recently appended matching record
EffectiveOf(stack, key) ==
    [p \in Props |-> IF Matches(stack, key, p) = {}
                     THEN DefaultAttr[p]
                     ELSE stack[Max(Matches(stack, key, p))].value]

\* cell_attributes[key] as a read returns it: the cached value if there is one
CellAttributes_read(s, key) ==
    IF s.attr_cache[key].cached THEN s.attr_cache[key].value
    ELSE EffectiveOf(s.cell_attributes, key)

\* cell_attributes[key]: the read memoizes its result
CellAttributes_getitem(s, key) ==
    [s EXCEPT !.attr_cache[key] = [cached |-> TRUE, value |-> CellAttributes_read(s, key)]]

EmptyCache == [k \in Keys |-> NoCache]

\* cell_attributes.append(record): invalidates the cache
CellAttributes_append(s, record) ==
    [s EXCEPT !.cell_attributes = Append(s.cell_attributes, record),
              !.attr_cache = EmptyCache]

\* cell_attributes.pop(): a no-op on the empty stack; invalidates the cache
CellAttributes_pop(s) ==
    IF s.cell_attributes = << >> THEN s
    ELSE [s EXCEPT !.cell_attributes = SubSeq(s.cell_attributes, 1,
                                               Len(s.cell_attributes) - 1),
                   !.attr_cache = EmptyCache]

\* del cell_attributes[:]
CellAttributes_clear(s) ==
    [s EXCEPT !.cell_attributes = << >>, !.attr_cache = EmptyCache]

\* -------------------------------------------------------------- selection

\* Selection.get_grid_bbox(shape): <<top, left, bottom, right>>; the whole grid
\* for a selection without blocks and cells
Selection_get_grid_bbox(sel, shp) ==
    IF sel = {} THEN <<0, 0, shp[1] - 1, shp[2] - 1>>
    ELSE <<Min({c[1] : c \in sel}), Min({c[2] : c \in sel}),
           Max({c[1] : c \in sel}), Max({c[2] : c \in sel})>>

\* ------------------------------------------------------------ grid: view

\* Grid.on_data_changed
Grid_on_data_changed(s) ==
    IF ~s.app_changed
    THEN [s EXCEPT !.app_changed = TRUE, !.title = <<"* ">> \o s.title]
    ELSE s

\* Grid.gui_update: reads the attributes of the current cell
Grid_gui_update(s) ==
    CellAttributes_getitem(s, <<s.current[1], s.current[2], s.table>>)

\* QTableView.columnSpan / rowSpan > 1 at a cell
IsSpanned(s, row, column) ==
    \E sp \in s.spans : sp[1] <= row /\ row <= sp[3] /\ sp[2] <= column /\ column <= sp[4]

RECURSIVE SpanDict(_, _, _, _)
\* the dict built by the first loop of update_cell_spans, records i..Len
SpanDict(s, i, d, bbox) ==
    IF i > Len(s.cell_attributes) THEN d
    ELSE LET rec == s.cell_attributes[i]
         IN IF rec.table = s.table /\ rec.name = "merge_area"
            THEN IF rec.value = NoArea
                 THEN SpanDict(s, i + 1,
                               [d EXCEPT ![<<bbox[1], bbox[2]>>] = NoArea], bbox)
                 ELSE SpanDict(s, i + 1,
                               [d EXCEPT ![<<rec.value[1], rec.value[2]>>] =
                                             <<rec.value[3], rec.value[4]>>], bbox)
            ELSE SpanDict(s, i + 1, d, bbox)

\* Grid.update_cell_spans
Grid_update_cell_spans(s) ==
    LET bbox == Selection_get_grid_bbox(s.selection, s.shape)
        d == SpanDict(s, 1, [c \in Cells |-> NoArea], bbox)
    IN [s EXCEPT !.spans =
           {<<c[1], c[2], d[c][1], d[c][2]>> :
               c \in {x \in Cells : d[x] # NoArea /\ d[x] # <<x[1], x[2]>>}}]

\* ------------------------------------------------------------ grid: model

\* GridItemModel.current(index)
GridItemModel_current(s, idx) == <<idx[1], idx[2], s.table>>

\* GridItemModel.code(index)
GridItemModel_code(s, idx) == CodeArray_call(s, GridItemModel_current(s, idx))

\* GridItemModel.setData(index, value, Qt.EditRole, raw=True)
GridItemModel_setData_edit(s, idx, value) ==
    Grid_on_data_changed(CodeArray_setitem(s, GridItemModel_current(s, idx), value))

\* GridItemModel.setData(index, value, Qt.DecorationRole | Qt.TextAlignmentRole)
GridItemModel_setData_attr(s, value) ==
    Grid_on_data_changed(CellAttributes_append(s, value))

\* --------------------------------------------------------------- commands

\* QUndoCommand.id(): -1 unless overridden
Command_id(cmd) ==
    CASE cmd.kind = "code" -> 1
      [] cmd.kind = "row" -> 2
      [] cmd.kind = "col" -> 3
      [] OTHER -> -1

\* CommandSetCellCode.__init__
CommandSetCellCode(s, code, idx, description) ==
    [kind |-> "code", description |-> description, indices |-> <<idx>>,
     old_codes |-> <<GridItemModel_code(s, idx)>>, new_codes |-> <<code>>]

\* CommandSetRowHeight.__init__
CommandSetRowHeight(row, tbl, old_height, new_height) ==
    [kind |-> "row", row |-> row, table |-> tbl,
     old_height |-> old_height, new_height |-> new_height]

\* CommandSetColumnWidth.__init__
CommandSetColumnWidth(column, tbl, old_width, new_width) ==
    [kind |-> "col", column |-> column, table |-> tbl,
     old_width |-> old_width, new_width |-> new_width]

\* CommandSetCellFormat / Merge / TextAlignment / Renderer .__init__
CommandSetCellFormat(kind, attr) == [kind |-> kind, attr |-> attr]

\* mergeWith returns True
MergeAccepts(cur, other) ==
    CASE cur.kind = "code" -> cur.description = other.description
      [] cur.kind = "row" -> cur.row = other.row
      [] cur.kind = "col" -> cur.column = other.column
      [] OTHER -> FALSE

\* CommandSetCellCode.mergeWith, the merged command
CommandSetCellCode_mergeWith(cur, other) ==
    [cur EXCEPT !.new_codes = cur.new_codes \o other.new_codes,
                !.old_codes = cur.old_codes \o other.old_codes,
                !.indices = cur.indices \o other.indices]

\* a mergeWith that accepts the later command but keeps the earlier new_height
CommandSetRowHeight_mergeWith_keeps_height(cur, other) == cur

\* CommandSetRowHeight.mergeWith, the merged command
CommandSetRowHeight_mergeWith(cur, other) ==
    [cur EXCEPT !.new_height = other.new_height]

\* CommandSetColumnWidth.mergeWith, the merged command
CommandSetColumnWidth_mergeWith(cur, other) ==
    [cur EXCEPT !.new_width = other.new_width]

MergeWith(cur, other) ==
    CASE cur.kind = "code" -> CommandSetCellCode_mergeWith(cur, other)
      [] cur.kind = "row" -> CommandSetRowHeight_mergeWith(cur, other)
      [] cur.kind = "col" -> CommandSetColumnWidth_mergeWith(cur, other)

RECURSIVE SetCodes(_, _, _, _)
\* for index, code in zip(indices, codes): model.setData(index, code, EditRole, raw)
SetCodes(s, indices, codes, i) ==
    IF i > Len(indices) THEN s
    ELSE SetCodes(GridItemModel_setData_edit(s, indices[i], codes[i]),
                  indices, codes, i + 1)

\* CommandSetCellCode.redo
CommandSetCellCode_redo(s, cmd) == SetCodes(s, cmd.indices, cmd.new_codes, 1)

\* CommandSetCellCode.undo
CommandSetCellCode_undo(s, cmd) == SetCodes(s, cmd.indices, cmd.old_codes, 1)

\* QTableView.rowHeight(row): 0 for a row the view does not have
Grid_rowHeight(s, row) == IF row < s.shape[1] THEN s.view_row[row] ELSE 0

\* QTableView.columnWidth(column): 0 for a column the view does not have
Grid_columnWidth(s, column) == IF column < s.shape[2] THEN s.view_col[column] ELSE 0

\* the handlers of sectionResized push commands, and pushed commands resize
\* sections
RECURSIVE QUndoStack_push(_, _)

\* an on_row_resized that does not look at undo_resizing_row
Grid_on_row_resized_unguarded(s, row, old_height, new_height) ==
    QUndoStack_push(s, CommandSetRowHeight(row, s.table, old_height, new_height))

\* Grid.on_row_resized
Grid_on_row_resized(s, row, old_height, new_height) ==
    IF s.undo_resizing_row THEN s
    ELSE QUndoStack_push(s, CommandSetRowHeight(row, s.table, old_height, new_height))

\* Grid.on_column_resized
Grid_on_column_resized(s, column, old_width, new_width) ==
    IF s.undo_resizing_column THEN s
    ELSE QUndoStack_push(s, CommandSetColumnWidth(column, s.table, old_width, new_width))

\* QTableView.setRowHeight: a section that changes its size emits
\* sectionResized, which is connected to on_row_resized
Grid_setRowHeight(s, row, height) ==
    IF row < s.shape[1] /\ s.view_row[row] # height
    THEN Grid_on_row_resized([s EXCEPT !.view_row[row] = height],
                             row, s.view_row[row], height)
    ELSE s

\* QTableView.setColumnWidth, as setRowHeight
Grid_setColumnWidth(s, column, width) ==
    IF column < s.shape[2] /\ s.view_col[column] # width
    THEN Grid_on_column_resized([s EXCEPT !.view_col[column] = width],
                                column, s.view_col[column], width)
    ELSE s

\* the body shared by CommandSetRowHeight.redo and .undo
SetRowHeightTo(s, cmd, height) ==
    IF Grid_rowHeight(s, cmd.row) # height
    THEN LET s1 == [s EXCEPT !.undo_resizing_row = TRUE]
             s2 == Grid_setRowHeight(s1, cmd.row, height)
             s3 == [s2 EXCEPT !.row_heights[<<cmd.row, cmd.table>>] = height]
         IN [s3 EXCEPT !.undo_resizing_row = FALSE]
    ELSE s

\* the body shared by CommandSetColumnWidth.redo and .undo
SetColumnWidthTo(s, cmd, width) ==
    IF Grid_columnWidth(s, cmd.column) # width
    THEN LET s1 == [s EXCEPT !.undo_resizing_column = TRUE]
             s2 == Grid_setColumnWidth(s1, cmd.column, width)
             s3 == [s2 EXCEPT !.col_widths[<<cmd.column, cmd.table>>] = width]
         IN [s3 EXCEPT !.undo_resizing_column = FALSE]
    ELSE s

\* CommandSetRowHeight.redo
CommandSetRowHeight_redo(s, cmd) == SetRowHeightTo(s, cmd, cmd.new_height)

\* CommandSetRowHeight.undo
CommandSetRowHeight_undo(s, cmd) == SetRowHeightTo(s, cmd, cmd.old_height)

\* CommandSetColumnWidth.redo
CommandSetColumnWidth_redo(s, cmd) == SetColumnWidthTo(s, cmd, cmd.new_width)

\* CommandSetColumnWidth.undo
CommandSetColumnWidth_undo(s, cmd) == SetColumnWidthTo(s, cmd, cmd.old_width)

\* CommandSetCellFormat._update_cells, CommandSetCellMerge._update_cells
Command_update_cells(s, cmd) ==
    IF cmd.kind = "merge"
    THEN Grid_on_data_changed(Grid_update_cell_spans(s))
    ELSE Grid_on_data_changed(s)

\* CommandSetCellFormat.redo (Merge, TextAlignment and Renderer alike)
CommandSetCellFormat_redo(s, cmd) ==
    Command_update_cells(GridItemModel_setData_attr(s, cmd.attr), cmd)

\* an undo that appends the attribute again where it should take it off
CommandSetCellFormat_undo_reapplies(s, cmd) ==
    Command_update_cells(GridItemModel_setData_attr(s, cmd.attr), cmd)

\* an undo that updates the cells and leaves the attribute stack alone
CommandSetCellFormat_undo_keeps_record(s, cmd) == Command_update_cells(s, cmd)

\* CommandSetCellFormat.undo (Merge, TextAlignment and Renderer alike)
CommandSetCellFormat_undo(s, cmd) ==
    Command_update_cells(CellAttributes_pop(s), cmd)

Command_redo(s, cmd) ==
    CASE cmd.kind = "code" -> CommandSetCellCode_redo(s, cmd)
      [] cmd.kind = "row" -> CommandSetRowHeight_redo(s, cmd)
      [] cmd.kind = "col" -> CommandSetColumnWidth_redo(s, cmd)
      [] OTHER -> CommandSetCellFormat_redo(s, cmd)

Command_undo(s, cmd) ==
    CASE cmd.kind = "code" -> CommandSetCellCode_undo(s, cmd)
      [] cmd.kind = "row" -> CommandSetRowHeight_undo(s, cmd)
      [] cmd.kind = "col" -> CommandSetColumnWidth_undo(s, cmd)
      [] OTHER -> CommandSetCellFormat_undo(s, cmd)

\* ------------------------------------------------------------- undo stack

\* a push that keeps the undone commands behind the new one
QUndoStack_push_keeps_undone(s, cmd) ==
    LET s1 == Command_redo(s, cmd)
        rest == SubSeq(s1.undo_stack, s1.index + 1, Len(s1.undo_stack))
        kept == SubSeq(s1.undo_stack, 1, s1.index)
        try_merge == /\ s1.index > 0
                     /\ Command_id(kept[s1.index]) # -1
                     /\ Command_id(kept[s1.index]) = Command_id(cmd)
    IN IF try_merge /\ MergeAccepts(kept[s1.index], cmd)
       THEN [s1 EXCEPT !.undo_stack[s1.index] = MergeWith(kept[s1.index], cmd)]
       ELSE [s1 EXCEPT !.undo_stack = Append(kept, cmd) \o rest,
                       !.index = s1.index + 1]

\* QUndoStack.push: redo the command, drop the commands after the cursor, then
\* merge it into the command below the cursor or append it. No undo limit is set.
QUndoStack_push(s, cmd) ==
    LET s1 == Command_redo(s, cmd)
        kept == SubSeq(s1.undo_stack, 1, s1.index)
        try_merge == /\ s1.index > 0
                     /\ Command_id(kept[s1.index]) # -1
                     /\ Command_id(kept[s1.index]) = Command_id(cmd)
    IN IF try_merge /\ MergeAccepts(kept[s1.index], cmd)
       THEN [s1 EXCEPT !.undo_stack =
                          [kept EXCEPT ![s1.index] = MergeWith(kept[s1.index], cmd)]]
       ELSE [s1 EXCEPT !.undo_stack = Append(kept, cmd), !.index = s1.index + 1]

\* QUndoStack.undo
QUndoStack_undo(s) ==
    IF s.index = 0 THEN s
    ELSE [Command_undo(s, s.undo_stack[s.index]) EXCEPT !.index = s.index - 1]

\* QUndoStack.redo
QUndoStack_redo(s) ==
    IF s.index = Len(s.undo_stack) THEN s
    ELSE [Command_redo(s, s.undo_stack[s.index + 1]) EXCEPT !.index = s.index + 1]

\* GridItemModel.data(index, Qt.BackgroundColorRole): the colour painted for
\* a cell of the table on display (no modelled handler sets "frozen")
GridItemModel_data_bgcolor(s, idx) ==
    CellAttributes_read(s, GridItemModel_current(s, idx)).bgcolor

\* ------------------------------------------------------ grid: handlers

\* GridCellDelegate.setModelData: the editor of the current cell is committed
GridCellDelegate_setModelData(s, text) ==
    QUndoStack_push(s, CommandSetCellCode(s, text, s.current,
        <<"Set code for cell", GridItemModel_current(s, s.current)>>))

\* the attribute tuple (selection, table, {name: value}) of the handlers
Attr(s, name, value) ==
    [selection |-> s.selection, table |-> s.table, name |-> name, value |-> value]

\* an on_background_color that colours the current cell, not the selection
Grid_on_background_color_current_only(s, rgb) ==
    LET s1 == Grid_gui_update(s)
    IN QUndoStack_push(s1, CommandSetCellFormat("format",
           [selection |-> {s1.current}, table |-> s1.table,
            name |-> "bgcolor", value |-> rgb]))

\* Grid.on_background_color
Grid_on_background_color(s, rgb) ==
    LET s1 == Grid_gui_update(s)
    IN QUndoStack_push(s1, CommandSetCellFormat("format", Attr(s1, "bgcolor", rgb)))

\* Selection.get_bottom_borders_selection(border_choice), with all borders
\* chosen: the cells whose bottom border the handler sets
Selection_get_bottom_borders_selection(sel) == sel

\* Selection.get_right_borders_selection(border_choice), with all borders
\* chosen: the cells whose right border the handler sets
Selection_get_right_borders_selection(sel) == sel

\* Grid.on_line_color
Grid_on_line_color(s, rgb) ==
    LET attr_bottom == [selection |-> Selection_get_bottom_borders_selection(s.selection),
                        table |-> s.table, name |-> "bordercolor_bottom", value |-> rgb]
        attr_right == [selection |-> Selection_get_right_borders_selection(s.selection),
                       table |-> s.table, name |-> "bordercolor_right", value |-> rgb]
    IN QUndoStack_push(QUndoStack_push(s, CommandSetCellFormat("format", attr_bottom)),
                       CommandSetCellFormat("format", attr_right))

\* Grid.on_borderwidth
Grid_on_borderwidth(s, width) ==
    LET attr_bottom == [selection |-> Selection_get_bottom_borders_selection(s.selection),
                        table |-> s.table, name |-> "borderwidth_bottom", value |-> width]
        attr_right == [selection |-> Selection_get_right_borders_selection(s.selection),
                       table |-> s.table, name |-> "borderwidth_right", value |-> width]
    IN QUndoStack_push(QUndoStack_push(s, CommandSetCellFormat("format", attr_bottom)),
                       CommandSetCellFormat("format", attr_right))

\* Grid.on_rotate_0, up to the push: setData is called directly
Grid_on_rotate_0_before_push(s) ==
    Grid_gui_update(GridItemModel_setData_attr(s, Attr(s, "angle", <<0>>)))

\* Grid.on_rotate_0
Grid_on_rotate_0(s) ==
    LET s1 == Grid_on_rotate_0_before_push(s)
    IN QUndoStack_push(s1, CommandSetCellFormat("align", Attr(s1, "angle", <<0>>)))

\* Grid.on_rotate_90
Grid_on_rotate_90(s) ==
    QUndoStack_push(s, CommandSetCellFormat("align", Attr(s, "angle", <<90>>)))

\* Grid.on_image_renderer_pressed
Grid_on_image_renderer_pressed(s) ==
    QUndoStack_push(s, CommandSetCellFormat("renderer", Attr(s, "renderer", "image")))

\* Grid.current = row, column: setCurrentIndex selects the cell; on_current_changed
Grid_set_current(s, cell) ==
    Grid_gui_update([s EXCEPT !.current = cell, !.selection = {cell}])

\* Grid.on_merge_pressed
Grid_on_merge_pressed(s) ==
    LET bbox == Selection_get_grid_bbox(s.selection, s.shape)
        top == bbox[1]
        left == bbox[2]
        attr == IF IsSpanned(s, top, left)
                THEN [selection |-> {<<top, left>>}, table |-> s.table,
                      name |-> "merge_area", value |-> NoArea]
                ELSE IF IsSpanned(s, s.current[1], s.current[2])
                THEN [selection |-> {s.current}, table |-> s.table,
                      name |-> "merge_area", value |-> NoArea]
                ELSE [selection |-> {<<top, left>>}, table |-> s.table,
                      name |-> "merge_area", value |-> bbox]
    IN Grid_set_current(QUndoStack_push(s, CommandSetCellFormat("merge", attr)),
                        <<top, left>>)

\* TableChoice.on_table_changed
TableChoice_on_table_changed(s) == Grid_on_data_changed(Grid_update_cell_spans(s))

\* TableChoice.no_tables = value: a removed current tab moves the current table
TableChoice_set_no_tables(s, value) ==
    IF s.table >= value
    THEN TableChoice_on_table_changed([s EXCEPT !.table = value - 1])
    ELSE s

\* the view after beginResetModel / endResetModel: the selection model is reset
\* (the current cell is placed at the upper left cell), rows and columns that
\* are gone lose their size
ViewAfterReset(s) ==
    [s EXCEPT !.current = <<0, 0>>,
              !.selection = {},
              !.view_row = [r \in DOMAIN s.view_row |->
                               IF r < s.shape[1] THEN s.view_row[r]
                               ELSE DefaultSectionSize],
              !.view_col = [c \in DOMAIN s.view_col |->
                               IF c < s.shape[2] THEN s.view_col[c]
                               ELSE DefaultSectionSize]]

\* GridItemModel.shape = value
GridItemModel_set_shape(s, value) ==
    ViewAfterReset(TableChoice_set_no_tables(CodeArray_set_shape(s, value), value[3]))

\* GridItemModel.reset: undo_stack.clear() is commented out
GridItemModel_reset(s) ==
    LET s1 == [s EXCEPT !.dict_grid = [k \in Keys |-> None]]
        s2 == CellAttributes_clear(s1)
        s3 == [s2 EXCEPT !.row_heights = [k \in DOMAIN s.row_heights |-> 0],
                         !.col_widths = [k \in DOMAIN s.col_widths |-> 0],
                         !.macros = ""]
    IN ViewAfterReset(s3)

\* Grid.reset_selection
Grid_reset_selection(s) == [s EXCEPT !.selection = {<<0, 0>>}]

\* MainWindow.safe_mode = value
MainWindow_set_safe_mode(s, value) == [s EXCEPT !.safe_mode = value]

\* ------------------------------------------------------------- workflows

Home == "home"
FileNames == {"a.pys", "b.pys"}

\* the lines of the files on disk at the start
FileLines(f) ==
    IF f = "a.pys"
    THEN << [type |-> "shape", shape |-> <<1, 1, 1>>],
            [type |-> "code", key |-> <<0, 0, 0>>, code |-> "a"] >>
    ELSE << [type |-> "shape", shape |-> FullShape],
            [type |-> "code", key |-> <<MaxRows - 1, MaxCols - 1, 0>>, code |-> "b"],
            [type |-> "row_height", key |-> <<0, 0>>, height |-> MaxHeight],
            [type |-> "macros", macros |-> "m"] >>

\* one step of the PysReader iterator: the line fills the code array
PysReader_line(s, line) ==
    CASE line.type = "shape" -> [s EXCEPT !.shape = line.shape]
      [] line.type = "code" -> [s EXCEPT !.dict_grid[line.key] = line.code]
      [] line.type = "attr" -> CellAttributes_append(s, line.attr)
      [] line.type = "row_height" -> [s EXCEPT !.row_heights[line.key] = line.height]
      [] line.type = "col_width" -> [s EXCEPT !.col_widths[line.key] = line.width]
      [] line.type = "macros" -> [s EXCEPT !.macros = line.macros]

\* the keys of the grid, of the rows and of the columns in writing order
AllKeys ==
    [i \in 1..(MaxRows * MaxCols * MaxTables) |->
        <<(i - 1) \div (MaxCols * MaxTables), ((i - 1) \div MaxTables) % MaxCols,
          (i - 1) % MaxTables>>]
RowKeys == [i \in 1..(MaxRows * MaxTables) |-> <<(i - 1) \div MaxTables, (i - 1) % MaxTables>>]
ColKeys == [i \in 1..(MaxCols * MaxTables) |-> <<(i - 1) \div MaxTables, (i - 1) % MaxTables>>]

\* the lines PysWriter yields for the code array: shape, cell code, attributes,
\* row heights, column widths, macros
PysWriter(s) ==
    LET HasCode(k) == InShape(k, s.shape) /\ s.dict_grid[k] # None
        HasHeight(k) == s.row_heights[k] # 0
        HasWidth(k) == s.col_widths[k] # 0
        code == SelectSeq(AllKeys, HasCode)
        rows == SelectSeq(RowKeys, HasHeight)
        cols == SelectSeq(ColKeys, HasWidth)
    IN << [type |-> "shape", shape |-> s.shape] >>
       \o [i \in 1..Len(code) |->
              [type |-> "code", key |-> code[i], code |-> s.dict_grid[code[i]]]]
       \o [i \in 1..Len(s.cell_attributes) |->
              [type |-> "attr", attr |-> s.cell_attributes[i]]]
       \o [i \in 1..Len(rows) |->
              [type |-> "row_height", key |-> rows[i], height |-> s.row_heights[rows[i]]]]
       \o [i \in 1..Len(cols) |->
              [type |-> "col_width", key |-> cols[i], width |-> s.col_widths[cols[i]]]]
       \o (IF s.macros = "" THEN << >> ELSE << [type |-> "macros", macros |-> s.macros] >>)

\* no signature file
NoSig == << >>

\* lib.hashing.verify on a file and its signature file; a missing signature
\* file raises OSError in file_open, which enters safe mode as well
Verify(s, filepath) == s.sig[filepath] # NoSig /\ s.sig[filepath] = s.disk[filepath]

\* no _save is under way
NoSave == [file |-> None, temp |-> << >>, lines |-> << >>]

\* Workflows.progress_dialog: the window-modal progress dialog is shown from
\* the first turn of the loop of file_open or _save on, and while it is shown
\* the main window takes no user input.  An open dialog that is not modal
\* would block nothing.
Workflows_progress_dialog_non_modal(s) == FALSE

Workflows_progress_dialog(s) ==
    \/ s.loading.file # None /\ s.loading.pos > 0
    \/ s.saving.file # None /\ s.saving.temp # << >>

\* Workflows.reset_changed_since_save
Workflows_reset_changed_since_save(s) ==
    [s EXCEPT !.settings_changed = FALSE,
              !.title = <<s.last_file_input_path, " - pyspread">>]

DialogChoices == {"discard", "save", "cancel"}

\* how a _save goes: the progress dialog is cancelled, writing raises IOError,
\* the move fails and leaves the destination alone, the move fails after it
\* has copied all but the last line (shutil.move copies if the temporary
\* directory is on another file system), the move succeeds and the saved file cannot be read
\* for signing, sign returns no signature, or all goes well
SaveOutcomes == {"ok", "ok_unreadable", "ok_nosignature", "cancel", "ioerror",
                 "moveerror", "movepartial"}

\* a sign_file that does not look at safe_mode
Workflows_sign_file_in_safe_mode(s, filepath, outcome) ==
    IF outcome = "ok_unreadable" THEN s
    ELSE IF outcome = "ok_nosignature" THEN s
    ELSE [s EXCEPT !.sig[filepath] = s.disk[filepath]]

\* Workflows.sign_file
Workflows_sign_file(s, filepath, outcome) ==
    IF s.safe_mode THEN s
    ELSE IF outcome = "ok_unreadable" THEN s
    ELSE IF outcome = "ok_nosignature" THEN s
    ELSE [s EXCEPT !.sig[filepath] = s.disk[filepath]]

\* Workflows._save after its loop: the temporary file is complete
Workflows_save_end(s, outcome) ==
    LET filepath == s.saving.file
        s1 == [s EXCEPT !.saving = NoSave]
    IN IF outcome = "moveerror" THEN s1
       ELSE IF outcome = "movepartial"
       THEN [s1 EXCEPT !.disk[filepath] = SubSeq(s.saving.temp, 1, Len(s.saving.temp) - 1)]
       ELSE Workflows_sign_file(
                [s1 EXCEPT !.disk[filepath] = s.saving.temp,
                           !.settings_changed = FALSE,
                           !.last_file_input_path = filepath,
                           !.title = <<filepath, " - pyspread">>],
                filepath, outcome)

\* Workflows._save: one turn of its loop, and what follows the loop; the
\* first turn creates the writer
Workflows_save_line(s, outcome) ==
    LET lines == IF s.saving.temp = << >> THEN PysWriter(s) ELSE s.saving.lines
        temp == Append(s.saving.temp, lines[Len(s.saving.temp) + 1])
        s1 == [s EXCEPT !.saving.lines = lines, !.saving.temp = temp]
    IN IF outcome \in {"cancel", "ioerror"} THEN [s EXCEPT !.saving = NoSave]
       ELSE IF Len(temp) < Len(lines) THEN s1
       ELSE Workflows_save_end(s1, outcome)

\* Workflows._save, run to its end with the given outcome
Workflows_save(s, filepath, outcome) ==
    IF outcome \in {"cancel", "ioerror"} THEN s
    ELSE Workflows_save_end(
             [s EXCEPT !.saving = [file |-> filepath, temp |-> PysWriter(s),
                                   lines |-> PysWriter(s)]], outcome)

\* Workflows.file_save up to the loop of _save; save_as is the path given in
\* the file save dialog
Workflows_file_save_begin(s, save_as) ==
    LET filepath == IF s.last_file_input_path # Home THEN s.last_file_input_path
                    ELSE save_as
    IN IF filepath = None THEN s
       ELSE [s EXCEPT !.saving = [file |-> filepath, temp |-> << >>, lines |-> << >>]]

\* Workflows.file_save_as up to the loop of _save
Workflows_file_save_as_begin(s, save_as) ==
    IF save_as = None THEN s
    ELSE [s EXCEPT !.saving = [file |-> save_as, temp |-> << >>, lines |-> << >>]]

\* Workflows.file_save; save_as is the path given in the file save dialog
Workflows_file_save(s, save_as, outcome) ==
    IF s.last_file_input_path # Home
    THEN Workflows_save(s, s.last_file_input_path, outcome)
    ELSE IF save_as = None THEN s
    ELSE Workflows_save(s, save_as, outcome)

\* handle_changed_since_save, up to the call of func: is func run, and the state
Workflows_handle_changed_since_save(s, choice, save_as, outcome) ==
    IF s.settings_changed
    THEN IF choice = "cancel" THEN [run |-> FALSE, s |-> s]
         ELSE IF choice = "save"
         THEN [run |-> TRUE, s |-> Workflows_file_save(s, save_as, outcome)]
         ELSE [run |-> TRUE, s |-> s]
    ELSE [run |-> TRUE, s |-> s]

\* Workflows.file_new without its decorator; shp is << >> if the shape dialog
\* is cancelled
Workflows_file_new_body(s, shp) ==
    IF shp = <<>> THEN s
    ELSE MainWindow_set_safe_mode(
             Grid_reset_selection(
                 GridItemModel_set_shape(GridItemModel_reset(s), shp)), FALSE)

\* Workflows.file_new
Workflows_file_new(s, choice, save_as, outcome, shp) ==
    LET h == Workflows_handle_changed_since_save(s, choice, save_as, outcome)
    IN IF h.run
       THEN Workflows_reset_changed_since_save(Workflows_file_new_body(h.s, shp))
       ELSE h.s

\* Workflows.file_quit: sys.exit() ends the application
Workflows_file_quit(s, choice, save_as, outcome) ==
    LET h == Workflows_handle_changed_since_save(s, choice, save_as, outcome)
    IN IF h.run THEN [h.s EXCEPT !.running = FALSE] ELSE h.s

\* MainWindow.on_approve; choice is the answer to the approve dialog
MainWindow_on_approve(s, choice) ==
    IF choice THEN MainWindow_set_safe_mode(s, FALSE) ELSE s

Idle == [file |-> None, pos |-> 0]

\* Workflows.file_open after the loading loop, and the end of its decorator
Workflows_file_open_end(s) ==
    LET s1 == GridItemModel_set_shape(s, s.shape)
        s2 == Grid_reset_selection(Grid_update_cell_spans(s1))
        s3 == [s2 EXCEPT !.last_file_input_path = s.loading.file,
                         !.settings_changed = FALSE,
                         !.loading = Idle]
    IN Workflows_reset_changed_since_save(s3)

\* Workflows.file_open up to the loading loop; filepath is None if the file
\* dialog is cancelled
Workflows_file_open_begin(s, choice, save_as, outcome, filepath) ==
    LET h == Workflows_handle_changed_since_save(s, choice, save_as, outcome)
    IN IF ~h.run THEN h.s
       ELSE IF filepath = None THEN Workflows_reset_changed_since_save(h.s)
       ELSE [MainWindow_set_safe_mode(GridItemModel_reset(h.s), ~Verify(h.s, filepath))
                EXCEPT !.loading = [file |-> filepath, pos |-> 0]]

\* a loading loop that leaves what was read in the grid when it is cancelled
Workflows_file_open_line_keeps_partial(s, canceled) ==
    LET lines == s.disk[s.loading.file]
        s1 == [PysReader_line(s, lines[s.loading.pos + 1])
                  EXCEPT !.loading.pos = s.loading.pos + 1]
    IN IF lines = << >> THEN Workflows_file_open_end(s)
       ELSE IF canceled
       THEN Workflows_file_open_end(MainWindow_set_safe_mode(s1, FALSE))
       ELSE IF s1.loading.pos = Len(lines)
       THEN Workflows_file_open_end(s1)
       ELSE s1

\* Workflows.file_open: one turn of the loading loop; the loop ends with the
\* last line or when the progress dialog was cancelled
Workflows_file_open_line(s, canceled) ==
    LET lines == s.disk[s.loading.file]
        s1 == [PysReader_line(s, lines[s.loading.pos + 1])
                  EXCEPT !.loading.pos = s.loading.pos + 1]
    IN IF lines = << >> THEN Workflows_file_open_end(s)
       ELSE IF canceled
       THEN Workflows_file_open_end(
                MainWindow_set_safe_mode(GridItemModel_reset(s1), FALSE))
       ELSE IF s1.loading.pos = Len(lines)
       THEN Workflows_file_open_end(s1)
       ELSE s1

\* Grid.has_selection: more than the current cell is selected
Grid_has_selection(s) == Cardinality(s.selection) > 1

PasteData == { << <<"a">> >>, << <<"a", "b">> >>, << <<"a">>, <<"b">> >> }

RECURSIVE PasteLine_wrapping(_, _, _, _, _)
\* an inner loop of _paste_to_current that continues in column 0 at the right
\* border of the grid
PasteLine_wrapping(s, line, j, paste_row, description) ==
    IF j > Len(line) THEN s
    ELSE LET paste_column == ((j - 1) + s.current[2]) % s.shape[2]
         IN PasteLine_wrapping(QUndoStack_push(s,
                                   CommandSetCellCode(s, line[j], <<paste_row, paste_column>>,
                                                      description)),
                               line, j + 1, paste_row, description)

RECURSIVE PasteLine(_, _, _, _, _)
\* the inner loop of _paste_to_current from field j on
PasteLine(s, line, j, paste_row, description) ==
    IF j > Len(line) THEN s
    ELSE LET paste_column == (j - 1) + s.current[2]
         IN IF CodeArray_contains(s, <<paste_row, paste_column, s.table>>)
            THEN PasteLine(QUndoStack_push(s,
                               CommandSetCellCode(s, line[j], <<paste_row, paste_column>>,
                                                  description)),
                           line, j + 1, paste_row, description)
            ELSE s

RECURSIVE PasteLines(_, _, _, _)
\* the outer loop of _paste_to_current from line i on
PasteLines(s, data, i, description) ==
    IF i > Len(data) THEN s
    ELSE LET paste_row == (i - 1) + s.current[1]
         IN IF ~CodeArray_contains(s, <<paste_row, 0, s.table>>) THEN s
            ELSE PasteLines(PasteLine(s, data[i], 1, paste_row, description),
                            data, i + 1, description)

\* Workflows._paste_to_current
Workflows_paste_to_current(s, data) ==
    PasteLines(s, data, 1,
               <<"Paste clipboard starting from cell", GridItemModel_current(s, s.current)>>)

\* the clipboard blocks pasted into a selection
ClipboardBlocks == PasteData \cup { << <<"a", "b">>, <<"b", "a">> >> }

RECURSIVE PasteSelectionLine(_, _, _, _, _, _)
\* the inner loop of _paste_to_selection from field number column on; the
\* fields of the line are repeated (cycle)
PasteSelectionLine(s, line, column, paste_row, bbox, description) ==
    LET paste_column == column + bbox[2]
        value == line[(column % Len(line)) + 1]
    IN IF CodeArray_contains(s, <<paste_row, paste_column, s.table>>)
          /\ paste_column <= bbox[4]
       THEN PasteSelectionLine(
                IF <<paste_row, paste_column>> \in s.selection
                THEN QUndoStack_push(s, CommandSetCellCode(s, value,
                                            <<paste_row, paste_column>>, description))
                ELSE s,
                line, column + 1, paste_row, bbox, description)
       ELSE s

RECURSIVE PasteSelectionLines_once(_, _, _, _, _)
\* an outer loop of _paste_to_selection that stops at the last line of the data
PasteSelectionLines_once(s, data, row, bbox, description) ==
    LET paste_row == row + bbox[1]
    IN IF row >= Len(data) \/ paste_row > bbox[3]
          \/ ~CodeArray_contains(s, <<paste_row, 0, s.table>>) THEN s
       ELSE PasteSelectionLines_once(
                PasteSelectionLine(s, data[(row % Len(data)) + 1], 0, paste_row, bbox,
                                   description),
                data, row + 1, bbox, description)

RECURSIVE PasteSelectionLines(_, _, _, _, _)
\* the outer loop of _paste_to_selection from line number row on; the lines
\* are repeated (cycle)
PasteSelectionLines(s, data, row, bbox, description) ==
    LET paste_row == row + bbox[1]
    IN IF paste_row > bbox[3] \/ ~CodeArray_contains(s, <<paste_row, 0, s.table>>) THEN s
       ELSE PasteSelectionLines(
                PasteSelectionLine(s, data[(row % Len(data)) + 1], 0, paste_row, bbox,
                                   description),
                data, row + 1, bbox, description)

\* Workflows._paste_to_selection
Workflows_paste_to_selection(s, data) ==
    PasteSelectionLines(s, data, 0, Selection_get_grid_bbox(s.selection, s.shape),
                        <<"Paste clipboard to", s.selection>>)

\* ------------------------------------------------------------ bookkeeping

SizeLabels == {"row", "col"}
FormatLabels == {"bgcolor", "rotate_0", "rotate_90", "merge", "renderer"}
BorderLabels == {"line_color", "borderwidth"}
PushLabels == {"edit", "paste", "paste_selection"} \cup SizeLabels \cup FormatLabels
                  \cup BorderLabels
HistoryLabels == {"undo", "redo"}
ResetLabels == {"file_new", "file_open"}
\* the turns of the loops of file_open and _save: they follow from the handler
\* that began the loop and are not counted as handlers of their own
ChunkLabels == {"file_open_line", "file_open", "file_save_line", "file_save",
                "file_save_fail"}

Red == <<255, 0, 0>>
Blue == <<0, 0, 255>>
Colors == {Red, Blue}
BorderWidths == {0, 2}

NeutralLabels == {"select", "table"}
\* the cells <<key, code>> a file holds
CodeOf(lines) ==
    {<<lines[i].key, lines[i].code>> : i \in {j \in 1..Len(lines) : lines[j].type = "code"}}
\* the handlers decorated with handle_changed_since_save
AskLabels == {"file_new", "file_new_cancel", "file_open_begin", "file_quit",
              "file_quit_cancel"}

NoGhost == [kind |-> "none", arg |-> << >>, pair |-> "no", hist |-> FALSE, fresh |-> FALSE,
            base_code |-> None, base_size |-> 0, new_size |-> 0, trunc |-> FALSE,
            on_empty |-> FALSE, inv |-> FALSE, attrs_before |-> << >>, view |-> << >>,
            dirty |-> FALSE, asked |-> FALSE, unapproved |-> {}]

\* what the handler labelled lbl with input arg leaves for the properties:
\*   kind, arg      the last handler that changed the grid or the files, and its
\*                  input (selecting, switching tables, undo and redo keep them)
\*   hist           undo or redo ran since that handler
\*   fresh          the first handler of the run of equal handlers met no
\*                  command for the same cell, row or column below the cursor
\*   pair           "pair": the handler repeated the one before it on the same
\*                  cell, row or column, no undo or redo in between, in a run
\*                  that started fresh;
\*                  "undone", "redone": an undo, then a redo followed
\*   base_code, base_size   what the cell, row or column held before the first
\*                  handler of the run of equal handlers
\*   new_size       the size the last resize set
\*   trunc          the last push met undone commands, only redos followed
\*   on_empty       the undo met a format command and an empty attribute stack
\*   inv            the undo directly followed a format handler
\*   attrs_before   the attribute stack before the format handler
\*   view           the attributes read before the handler's last append (pre)
\*   dirty          a cell edit, a format handler or a paste ran since the grid
\*                  was last saved, made new or loaded
\*   asked          the handler showed the discard-changes dialog
\*   unapproved     the cells <<key, code>> read from files that did not verify,
\*                  less those the user approved, typed in or got from a file
\*                  that verified
GhostAfter(pre, lbl, arg) ==
    LET same == /\ lbl \in {"edit"} \cup SizeLabels
                /\ ghost.kind = lbl /\ ~ghost.hist /\ ghost.arg = arg[1]
        top_same == /\ index > 0 /\ Command_id(undo_stack[index]) # -1
                    /\ \/ /\ lbl = "edit" /\ undo_stack[index].kind = "code"
                          /\ undo_stack[index].description = <<"Set code for cell", arg[1]>>
                       \/ /\ lbl = "row" /\ undo_stack[index].kind = "row"
                          /\ undo_stack[index].row = arg[1]
                       \/ /\ lbl = "col" /\ undo_stack[index].kind = "col"
                          /\ undo_stack[index].column = arg[1]
        old_size == IF lbl = "row" THEN view_row[arg[1]] ELSE view_col[arg[1]]
    IN IF lbl \in HistoryLabels
       THEN [ghost EXCEPT !.hist = TRUE,
                          !.pair = IF lbl = "undo" /\ ghost.pair = "pair" THEN "undone"
                                   ELSE IF lbl = "redo" /\ ghost.pair = "undone"
                                   THEN "redone" ELSE "no",
                          !.trunc = lbl = "redo" /\ ghost.trunc,
                          !.on_empty = /\ lbl = "undo" /\ index > 0
                                       /\ undo_stack[index].kind \in FormatKinds
                                       /\ cell_attributes = << >>,
                          !.inv = lbl = "undo" /\ last \in FormatLabels \cup BorderLabels]
       ELSE IF lbl \in NeutralLabels
       THEN [ghost EXCEPT !.trunc = FALSE, !.on_empty = FALSE, !.inv = FALSE,
                          !.attrs_before = << >>, !.view = << >>]
       ELSE [kind |-> lbl,
             arg |-> IF arg = << >> THEN << >> ELSE arg[1],
             pair |-> IF same /\ ghost.fresh THEN "pair" ELSE "no",
             hist |-> FALSE,
             fresh |-> IF same THEN ghost.fresh ELSE ~top_same,
             base_code |-> IF lbl # "edit" THEN None
                           ELSE IF same THEN ghost.base_code ELSE dict_grid[arg[1]],
             base_size |-> IF lbl \notin SizeLabels THEN 0
                           ELSE IF same THEN ghost.base_size ELSE old_size,
             new_size |-> IF lbl \notin SizeLabels THEN 0 ELSE arg[2],
             trunc |-> lbl \in PushLabels /\ index < Len(undo_stack),
             on_empty |-> FALSE,
             inv |-> FALSE,
             attrs_before |-> IF lbl \in FormatLabels \cup BorderLabels
                              THEN cell_attributes ELSE << >>,
             view |-> IF lbl \in FormatLabels \cup BorderLabels
                      THEN [k \in Keys |-> CellAttributes_read(pre, k)] ELSE << >>,
             dirty |-> IF lbl \in {"edit", "paste", "paste_selection"} \cup FormatLabels
                                  \cup BorderLabels
                       THEN TRUE
                       ELSE IF lbl \in {"file_new", "file_open", "file_save"} THEN FALSE
                       ELSE IF lbl \in AskLabels /\ settings_changed /\ arg[1][1] = "save"
                               /\ arg[1][3] \in {"ok", "ok_unreadable", "ok_nosignature"}
                               /\ (last_file_input_path # Home \/ arg[1][2] # None)
                       THEN FALSE
                       ELSE ghost.dirty,
             asked |-> lbl \in AskLabels /\ settings_changed,
             unapproved |->
                 IF lbl = "file_open" /\ ~arg[1][1]
                 THEN IF Verify(S, loading.file)
                      THEN ghost.unapproved \ CodeOf(disk[loading.file])
                      ELSE ghost.unapproved \cup CodeOf(disk[loading.file])
                 ELSE IF lbl = "approve" /\ arg[1] THEN {}
                 ELSE IF lbl = "edit" THEN ghost.unapproved \ {<<arg[1], arg[2]>>}
                 ELSE ghost.unapproved]

\* the part of the state the round trip is about
Snapshot(s) ==
    [dict_grid |-> s.dict_grid, cell_attributes |-> s.cell_attributes,
     effective |-> [k \in Keys |-> CellAttributes_read(s, k)],
     row_heights |-> s.row_heights, col_widths |-> s.col_widths,
     view_row |-> s.view_row, view_col |-> s.view_col]

Free == [phase |-> "free", snap |-> << >>]

\* apply all, undo all, redo all
RtAfter(s, lbl) ==
    IF rt.phase = "free" THEN rt
    ELSE IF lbl = "undo" THEN [rt EXCEPT !.phase = "undo"]
    ELSE IF lbl = "redo"
    THEN [rt EXCEPT !.phase = IF s.index = Len(s.undo_stack) THEN "done" ELSE "redo"]
    ELSE [phase |-> "apply", snap |-> Snapshot(s)]

\* the handler labelled lbl has run to its end and left the state s
Commit(pre, s, lbl, arg) ==
    /\ running
    /\ \/ lbl \in ChunkLabels
       \/ steps < MaxSteps /\ ~Workflows_progress_dialog(S)
    /\ shape' = s.shape
    /\ dict_grid' = s.dict_grid
    /\ cell_attributes' = s.cell_attributes
    /\ attr_cache' = s.attr_cache
    /\ row_heights' = s.row_heights
    /\ col_widths' = s.col_widths
    /\ macros' = s.macros
    /\ view_row' = s.view_row
    /\ view_col' = s.view_col
    /\ spans' = s.spans
    /\ undo_stack' = s.undo_stack
    /\ index' = s.index
    /\ current' = s.current
    /\ table' = s.table
    /\ selection' = s.selection
    /\ undo_resizing_row' = s.undo_resizing_row
    /\ undo_resizing_column' = s.undo_resizing_column
    /\ app_changed' = s.app_changed
    /\ settings_changed' = s.settings_changed
    /\ title' = s.title
    /\ safe_mode' = s.safe_mode
    /\ last_file_input_path' = s.last_file_input_path
    /\ loading' = s.loading
    /\ saving' = s.saving
    /\ disk' = s.disk
    /\ sig' = s.sig
    /\ running' = s.running
    /\ err' = s.err
    /\ last' = lbl
    /\ ghost' = GhostAfter(pre, lbl, arg)
    /\ rt' = RtAfter(s, lbl)
    /\ steps' = IF \/ rt.phase # "free" /\ lbl \in HistoryLabels
                   \/ lbl \in ChunkLabels
                THEN steps ELSE steps + 1

\* ----------------------------------------------------------------- actions

\* the user selects the block top, left, bottom, right; cur becomes current
Select(top, left, bottom, right, cur) ==
    /\ top <= bottom /\ left <= right
    /\ bottom < shape[1] /\ right < shape[2]
    /\ cur \in Rect(top, left, bottom, right)
    /\ Commit(S, IF cur # current
                 THEN Grid_gui_update([S EXCEPT !.current = cur,
                                                !.selection = Rect(top, left, bottom, right)])
                 ELSE [S EXCEPT !.selection = Rect(top, left, bottom, right)],
              "select", << >>)

\* the user adds the single cell cur to the selection (Ctrl+click); cur becomes
\* current
SelectCell(cur) ==
    /\ cur[1] < shape[1] /\ cur[2] < shape[2]
    /\ cur \notin selection
    /\ Commit(S, Grid_gui_update([S EXCEPT !.current = cur,
                                           !.selection = selection \cup {cur}]),
              "select", << >>)

\* the user chooses another table in the table choice
SwitchTable(t) ==
    /\ t < shape[3] /\ t # table
    /\ Commit(S, TableChoice_on_table_changed([S EXCEPT !.table = t]), "table", << >>)

\* the user commits the cell editor of the current cell
EditCell(text) ==
    Commit(S, GridCellDelegate_setModelData(S, text), "edit",
           <<GridItemModel_current(S, current), text>>)

\* Workflows.paste with the clipboard holding data and no block selected
Paste(data) ==
    /\ ~Grid_has_selection(S)
    /\ Commit(S, Workflows_paste_to_current([S EXCEPT !.settings_changed = TRUE], data),
              "paste", <<data>>)

\* Workflows.paste with the clipboard holding data and a block selected
PasteToSelection(data) ==
    /\ Grid_has_selection(S)
    /\ Commit(S, Workflows_paste_to_selection([S EXCEPT !.settings_changed = TRUE], data),
              "paste_selection", <<data>>)

\* the user drags a row border: the view resizes the row and signals it
RowResized(row, new_height) ==
    /\ row < shape[1] /\ new_height # view_row[row]
    /\ Commit(S, Grid_on_row_resized([S EXCEPT !.view_row[row] = new_height],
                                     row, view_row[row], new_height),
              "row", <<row, new_height>>)

\* the user drags a column border
ColumnResized(column, new_width) ==
    /\ column < shape[2] /\ new_width # view_col[column]
    /\ Commit(S, Grid_on_column_resized([S EXCEPT !.view_col[column] = new_width],
                                        column, view_col[column], new_width),
              "col", <<column, new_width>>)

OnBackgroundColor(rgb) ==
    Commit(Grid_gui_update(S), Grid_on_background_color(S, rgb), "bgcolor", <<rgb>>)

\* the user picks a line colour
OnLineColor(rgb) == Commit(S, Grid_on_line_color(S, rgb), "line_color", <<rgb>>)

\* the user picks a border width
OnBorderWidth(width) == Commit(S, Grid_on_borderwidth(S, width), "borderwidth", <<width>>)

OnRotate0 ==
    Commit(Grid_on_rotate_0_before_push(S), Grid_on_rotate_0(S), "rotate_0", << >>)

OnRotate90 == Commit(S, Grid_on_rotate_90(S), "rotate_90", << >>)

OnImageRendererPressed ==
    Commit(S, Grid_on_image_renderer_pressed(S), "renderer", << >>)

OnMergePressed == Commit(S, Grid_on_merge_pressed(S), "merge", << >>)

\* MainWindow.on_undo
Undo == Commit(S, QUndoStack_undo(S), "undo", << >>)

\* MainWindow.on_redo
Redo == Commit(S, QUndoStack_redo(S), "redo", << >>)

\* Workflows.file_new; the label tells whether the grid was reset
FileNew(choice, save_as, outcome, shp) ==
    LET ran == Workflows_handle_changed_since_save(S, choice, save_as, outcome).run
                   /\ shp # << >>
    IN Commit(S, Workflows_file_new(S, choice, save_as, outcome, shp),
              IF ran THEN "file_new" ELSE "file_new_cancel",
              << <<choice, save_as, outcome>> >>)

\* Workflows.file_open up to the first turn of the loading loop
FileOpenBegin(choice, save_as, outcome, filepath) ==
    /\ loading = Idle /\ saving = NoSave
    /\ Commit(S, Workflows_file_open_begin(S, choice, save_as, outcome, filepath),
              "file_open_begin", << <<choice, save_as, outcome>> >>)

\* Workflows.file_open: a turn of the loading loop, and what follows the loop
FileOpenLine(canceled) ==
    /\ loading # Idle
    /\ canceled => disk[loading.file] # << >>
    /\ LET s == Workflows_file_open_line(S, canceled)
       IN Commit(S, s, IF s.loading = Idle THEN "file_open" ELSE "file_open_line",
                 << <<canceled, loading.pos + 1>> >>)

\* Workflows.file_save up to the first turn of the loop of _save
FileSaveBegin(save_as) ==
    /\ loading = Idle /\ saving = NoSave
    /\ Commit(S, Workflows_file_save_begin(S, save_as), "file_save_begin", << >>)

\* Workflows.file_save_as up to the first turn of the loop of _save
FileSaveAsBegin(save_as) ==
    /\ loading = Idle /\ saving = NoSave
    /\ Commit(S, Workflows_file_save_as_begin(S, save_as), "file_save_begin", << >>)

\* Workflows._save: a turn of its loop, and what follows the loop
FileSaveLine(outcome) ==
    /\ saving # NoSave
    /\ LET s == Workflows_save_line(S, outcome)
       IN Commit(S, s, IF s.saving # NoSave THEN "file_save_line"
                       ELSE IF outcome \in {"ok", "ok_unreadable", "ok_nosignature"}
                       THEN "file_save" ELSE "file_save_fail",
                 <<outcome>>)

\* Workflows.file_quit
FileQuit(choice, save_as, outcome) ==
    LET s == Workflows_file_quit(S, choice, save_as, outcome)
    IN Commit(S, s, IF s.running THEN "file_quit_cancel" ELSE "file_quit",
              << <<choice, save_as, outcome>> >>)

\* MainWindow.on_approve
OnApprove(choice) == Commit(S, MainWindow_on_approve(S, choice), "approve", <<choice>>)

\* ------------------------------------------------------- specifications

\* the state after MainWindow.__init__: an empty grid of the configured shape
InitProg ==
    /\ shape = FullShape
    /\ dict_grid = [k \in Keys |-> None]
    /\ cell_attributes = << >>
    /\ attr_cache = EmptyCache
    /\ row_heights = [k \in (0..(MaxRows - 1)) \X (0..(MaxTables - 1)) |-> 0]
    /\ col_widths = [k \in (0..(MaxCols - 1)) \X (0..(MaxTables - 1)) |-> 0]
    /\ macros = ""
    /\ view_row = [r \in 0..(MaxRows - 1) |-> DefaultSectionSize]
    /\ view_col = [c \in 0..(MaxCols - 1) |-> DefaultSectionSize]
    /\ spans = {}
    /\ undo_stack = << >>
    /\ index = 0
    /\ current = <<0, 0>>
    /\ table = 0
    /\ selection = {<<0, 0>>}
    /\ undo_resizing_row = FALSE
    /\ undo_resizing_column = FALSE
    /\ app_changed = FALSE
    /\ settings_changed = FALSE
    /\ title = <<"Pyspread">>
    /\ safe_mode = FALSE
    /\ last_file_input_path = Home
    /\ loading = Idle
    /\ saving = NoSave
    /\ disk = [f \in FileNames |-> FileLines(f)]
    /\ sig = [f \in FileNames |-> IF f = "b.pys" THEN FileLines(f) ELSE NoSig]
    /\ running = TRUE
    /\ err = FALSE
    /\ last = "init"
    /\ ghost = NoGhost
    /\ steps = 0

Init == InitProg /\ rt = Free

InitRoundTrip == InitProg /\ rt = [phase |-> "apply", snap |-> Snapshot(S)]

SelectSome ==
    \E top, bottom \in 0..(MaxRows - 1), left, right \in 0..(MaxCols - 1), cur \in Cells :
        Select(top, left, bottom, right, cur)
SelectCellSome == \E cur \in Cells : SelectCell(cur)
SwitchSome == \E t \in 0..(MaxTables - 1) : SwitchTable(t)
EditSome == \E text \in Codes : EditCell(text)
PasteSome == \E data \in PasteData : Paste(data)
PasteToSelectionSome == \E data \in ClipboardBlocks : PasteToSelection(data)
RowResizedSome == \E row \in 0..(MaxRows - 1), h \in Heights : RowResized(row, h)
ColumnResizedSome == \E column \in 0..(MaxCols - 1), w \in Heights : ColumnResized(column, w)
BackgroundColorSome == \E rgb \in Colors : OnBackgroundColor(rgb)
LineColorSome == \E rgb \in Colors : OnLineColor(rgb)
BorderWidthSome == \E width \in BorderWidths : OnBorderWidth(width)
\* the dialogs that are shown, and so the answers that matter
ChoicesShown == IF settings_changed THEN DialogChoices ELSE {"discard"}
OutcomesOf(choice) == IF choice = "save" THEN SaveOutcomes ELSE {"ok"}
SaveAsShown(choice) ==
    IF choice = "save" /\ last_file_input_path = Home THEN {None} \cup FileNames
    ELSE {None}

FileNewSome ==
    \E choice \in ChoicesShown, shp \in {<< >>} \cup NewShapes :
        \E save_as \in SaveAsShown(choice), outcome \in OutcomesOf(choice) :
            FileNew(choice, save_as, outcome, shp)
FileOpenBeginSome ==
    \E choice \in ChoicesShown, filepath \in {None} \cup FileNames :
        \E save_as \in SaveAsShown(choice), outcome \in OutcomesOf(choice) :
            FileOpenBegin(choice, save_as, outcome, filepath)
FileOpenLineSome == \E canceled \in BOOLEAN : FileOpenLine(canceled)
FileSaveBeginSome ==
    \E save_as \in IF last_file_input_path = Home THEN {None} \cup FileNames ELSE {None} :
        FileSaveBegin(save_as)
FileSaveAsBeginSome == \E save_as \in {None} \cup FileNames : FileSaveAsBegin(save_as)
FileSaveLineSome == \E outcome \in SaveOutcomes : FileSaveLine(outcome)
FileQuitSome ==
    \E choice \in ChoicesShown :
        \E save_as \in SaveAsShown(choice), outcome \in OutcomesOf(choice) :
            FileQuit(choice, save_as, outcome)
OnApproveSome == \E choice \in BOOLEAN : OnApprove(choice)

\* editing cell code, with the history
NextCode ==
    \/ SelectSome
    \/ SwitchSome
    \/ EditSome
    \/ PasteSome
    \/ OnRotate90
    \/ Undo
    \/ Redo
SpecCode == Init /\ [][NextCode]_vars

\* resizing rows and columns, with the history
NextSize ==
    \/ SwitchSome
    \/ RowResizedSome
    \/ ColumnResizedSome
    \/ Undo
    \/ Redo
SpecSize == Init /\ [][NextSize]_vars

\* formatting cells, with the history and a new grid in between
NextFormat ==
    \/ SelectSome
    \/ BackgroundColorSome
    \/ OnRotate0
    \/ OnRotate90
    \/ OnImageRendererPressed
    \/ OnMergePressed
    \/ FileNewSome
    \/ Undo
    \/ Redo
SpecFormat == Init /\ [][NextFormat]_vars

\* new and opened files, with the history
NextFile ==
    \/ EditSome
    \/ SelectSome
    \/ OnRotate90
    \/ FileNewSome
    \/ FileOpenBeginSome
    \/ FileOpenLineSome
    \/ Undo
    \/ Redo
SpecFile == Init /\ [][NextFile]_vars

\* opening and saving in turns, with edits, approval and the history
NextSave ==
    \/ EditSome
    \/ FileOpenBeginSome
    \/ FileOpenLineSome
    \/ FileSaveBeginSome
    \/ FileSaveAsBeginSome
    \/ FileSaveLineSome
    \/ OnApproveSome
    \/ Undo
    \/ Redo
SpecSave == Init /\ [][NextSave]_vars

\* changing the grid, then making a new one, opening a file or leaving
NextAsk ==
    \/ EditSome
    \/ PasteSome
    \/ OnRotate90
    \/ FileNewSome
    \/ FileOpenBeginSome
    \/ FileOpenLineSome
    \/ FileQuitSome
SpecAsk == Init /\ [][NextAsk]_vars

\* pasting into the current cell and into selections, with the history
NextPaste ==
    \/ SelectSome
    \/ SelectCellSome
    \/ SwitchSome
    \/ PasteSome
    \/ PasteToSelectionSome
    \/ Undo
    \/ Redo
SpecPaste == Init /\ [][NextPaste]_vars

\* opening files that verify or do not, approving, with edits and the history
NextTrust ==
    \/ EditSome
    \/ FileNewSome
    \/ FileOpenBeginSome
    \/ FileOpenLineSome
    \/ OnApproveSome
    \/ Undo
    \/ Redo
SpecTrust == Init /\ [][NextTrust]_vars

\* border colours and widths of selections, with the history
NextBorder ==
    \/ SelectSome
    \/ LineColorSome
    \/ BorderWidthSome
    \/ Undo
    \/ Redo
SpecBorder == Init /\ [][NextBorder]_vars

\* merging and unmerging cells, with table switches and the history
NextMerge ==
    \/ SelectSome
    \/ SwitchSome
    \/ OnMergePressed
    \/ Undo
    \/ Redo
SpecMerge == Init /\ [][NextMerge]_vars

\* pasted and edited cells, a new grid of another shape, with the history
NextStale ==
    \/ EditSome
    \/ PasteSome
    \/ FileNewSome
    \/ Undo
    \/ Redo
SpecStale == Init /\ [][NextStale]_vars

\* N commands are pushed, then all are undone, then all are redone
NextRoundTrip ==
    \/ rt.phase = "apply" /\ ( \/ SelectSome
                               \/ SwitchSome
                               \/ EditSome
                               \/ RowResizedSome
                               \/ ColumnResizedSome
                               \/ OnRotate0
                               \/ OnRotate90
                               \/ OnMergePressed )
    \/ rt.phase \in {"apply", "undo"} /\ index > 0 /\ Undo
    \/ (rt.phase = "redo" \/ (rt.phase = "undo" /\ index = 0)) /\ Redo
SpecRoundTrip == InitRoundTrip /\ [][NextRoundTrip]_vars

Next ==
    \/ SelectSome
    \/ SelectCellSome
    \/ SwitchSome
    \/ EditSome
    \/ PasteSome
    \/ PasteToSelectionSome
    \/ RowResizedSome
    \/ ColumnResizedSome
    \/ BackgroundColorSome
    \/ LineColorSome
    \/ BorderWidthSome
    \/ OnRotate0
    \/ OnRotate90
    \/ OnImageRendererPressed
    \/ OnMergePressed
    \/ FileNewSome
    \/ FileOpenBeginSome
    \/ FileOpenLineSome
    \/ FileSaveBeginSome
    \/ FileSaveAsBeginSome
    \/ FileSaveLineSome
    \/ FileQuitSome
    \/ OnApproveSome
    \/ Undo
    \/ Redo
Spec == Init /\ [][Next]_vars

\* ---------------------------------------------------------------- claims

\* C1: N commands are pushed, all are undone, all are redone: the cell codes,
\* the attribute stack, the effective attributes, the stored and the shown row
\* heights and column widths are then what they were after the N pushes.
RoundTripIdentity == rt.phase = "done" => Snapshot(S) = rt.snap

\* C2: two successive edits of the same cell are one history entry, and undoing
\* it directly gives the cell the code it had before the first of the edits.
MergedCodeUndoRestoresFirst ==
    [][(ghost.pair = "pair" /\ last = "edit" /\ last' = "undo")
          => dict_grid'[ghost.arg] = ghost.base_code]_vars

\* C3: two successive resizes of the same row to H1 and H2 (of the same column
\* likewise), with no other command, undo or redo between them, leave one
\* history entry for both; undoing it gives the row the height it had before
\* H1, and redoing it then gives it H2.  H1 is the first resize of the entry:
\* it met no command for the same row below the cursor of the history.
SizeMergeLaw ==
    [][/\ (ghost'.pair = "pair" /\ last' \in SizeLabels)
            => index' = index /\ Len(undo_stack') = index
       /\ (ghost.pair = "pair" /\ ghost.kind \in SizeLabels /\ last' = "undo")
            => /\ index' = index - 1
               /\ ghost.kind = "row" => view_row'[ghost.arg] = ghost.base_size
               /\ ghost.kind = "col" => view_col'[ghost.arg] = ghost.base_size
       /\ (ghost.pair = "undone" /\ ghost.kind \in SizeLabels /\ last' = "redo")
            => /\ index' = index + 1
               /\ ghost.kind = "row" => view_row'[ghost.arg] = ghost.new_size
               /\ ghost.kind = "col" => view_col'[ghost.arg] = ghost.new_size]_vars

\* C3: a row was resized twice, the one entry was undone and redone, and the
\* second height differs from the height before the first resize
SizeMergeRedone ==
    /\ ghost.pair = "redone" /\ ghost.kind = "row"
    /\ view_row[ghost.arg] = ghost.new_size
    /\ ghost.new_size # ghost.base_size

\* C4: a push leaves no undone command behind it, whatever was undone before;
\* a redo after a push that met undone commands changes neither the cell
\* codes nor the attribute stack nor the history.
HistoryTruncation ==
    [][/\ last' \in PushLabels
            => /\ Len(undo_stack') = index'
               /\ SubSeq(undo_stack', 1, index' - 1) = SubSeq(undo_stack, 1, index' - 1)
       /\ (ghost.trunc /\ last' = "redo")
            => /\ dict_grid' = dict_grid
               /\ cell_attributes' = cell_attributes
               /\ undo_stack' = undo_stack
               /\ index' = index]_vars

\* C4: a redo was asked for after a push that followed an undo
RedoAfterTruncation == last = "redo" /\ ghost.trunc

\* C5: undoing a format command directly after the handler that pushed it
\* leaves the attribute stack as it was before the handler.
FormatUndoRestoresStack ==
    [][(last \in FormatLabels /\ last' = "undo")
          => cell_attributes' = ghost.attrs_before]_vars

\* C6: after file_new or file_open has run, the history is empty.
HistoryEmptyAfterLoad == last \in ResetLabels => undo_stack = << >> /\ index = 0

\* C7: the history never holds more commands than the configured number of
\* undo steps.
HistoryBounded == Len(undo_stack) <= MaxUnredo

Stale(cmd) ==
    /\ cmd.kind = "code"
    /\ \E i \in 1..Len(cmd.indices) :
           cmd.indices[i][1] >= shape[1] \/ cmd.indices[i][2] >= shape[2]

\* C9: undo and redo of a code command whose cell is outside the grid write
\* no code and raise nothing.
StaleCodeCommandWritesNothing ==
    [][/\ (last' = "undo" /\ index > 0 /\ Stale(undo_stack[index]))
            => dict_grid' = dict_grid /\ err' = FALSE
       /\ (last' = "redo" /\ index < Len(undo_stack) /\ Stale(undo_stack[index + 1]))
            => dict_grid' = dict_grid /\ err' = FALSE]_vars

\* C10: the attributes read for every cell after a record was appended and
\* popped again are the attributes read before the append, cached or not.
PopInverse ==
    [][(last \in FormatLabels /\ last' = "undo")
          => \A k \in Keys : CellAttributes_read(S, k)' = ghost.view[k]]_vars

\* C10: a merge was undone: the record had changed the attributes of its cell,
\* which were read and cached before the pop; they read as before the append
PoppedAfterCachedRead ==
    /\ last = "undo" /\ ghost.inv /\ ghost.kind = "merge"
    /\ \A k \in Keys : CellAttributes_read(S, k) = ghost.view[k]
    /\ \E k \in Keys : ghost.view[k].merge_area = NoArea

\* the value of the record appended last among those of the stack that
\* cover the key and set the property, the default if there is none
MostRecent(stack, key, p) ==
    LET hits == {i \in 1..Len(stack) : /\ stack[i].name = p
                                       /\ stack[i].table = key[3]
                                       /\ <<key[1], key[2]>> \in stack[i].selection}
    IN IF hits = {} THEN DefaultAttr[p]
       ELSE stack[CHOOSE i \in hits : \A j \in hits : j <= i].value

MergeAreas(stack, tbl) ==
    {<<c[1], c[2], MostRecent(stack, <<c[1], c[2], tbl>>, "merge_area")[3],
                   MostRecent(stack, <<c[1], c[2], tbl>>, "merge_area")[4]>> :
        c \in {x \in Cells :
                  /\ MostRecent(stack, <<x[1], x[2], tbl>>, "merge_area") # NoArea
                  /\ MostRecent(stack, <<x[1], x[2], tbl>>, "merge_area")
                         # <<x[1], x[2], x[1], x[2]>>}}

\* C12: after on_merge_pressed, after an undo or a redo of a merge command
\* and after a table switch, the spans of the view are the merge areas the
\* attribute stack holds for the table on display.
SpansMirrorStack ==
    [][(\/ last' \in {"merge", "table"}
        \/ last' = "undo" /\ index > 0 /\ undo_stack[index].kind = "merge"
        \/ last' = "redo" /\ index < Len(undo_stack) /\ undo_stack[index + 1].kind = "merge")
          => spans' = MergeAreas(cell_attributes', table')]_vars

\* C20: after the command of a row resized by the user is pushed, the view's
\* row height and code_array.row_heights[(row, table)] both are the new
\* height; after its undo both are the old height, after its redo both are
\* the new height again (columns and their widths likewise).
SizeStoredAndShown ==
    [][/\ last' = "row" => /\ view_row'[ghost'.arg] = ghost'.new_size
                           /\ row_heights'[<<ghost'.arg, table'>>] = ghost'.new_size
       /\ last' = "col" => /\ view_col'[ghost'.arg] = ghost'.new_size
                           /\ col_widths'[<<ghost'.arg, table'>>] = ghost'.new_size
       /\ (last' = "undo" /\ index > 0 /\ undo_stack[index].kind = "row")
            => LET cmd == undo_stack[index]
               IN /\ view_row'[cmd.row] = cmd.old_height
                  /\ row_heights'[<<cmd.row, cmd.table>>] = cmd.old_height
       /\ (last' = "undo" /\ index > 0 /\ undo_stack[index].kind = "col")
            => LET cmd == undo_stack[index]
               IN /\ view_col'[cmd.column] = cmd.old_width
                  /\ col_widths'[<<cmd.column, cmd.table>>] = cmd.old_width
       /\ (last' = "redo" /\ index < Len(undo_stack) /\ undo_stack[index + 1].kind = "row")
            => LET cmd == undo_stack[index + 1]
               IN /\ view_row'[cmd.row] = cmd.new_height
                  /\ row_heights'[<<cmd.row, cmd.table>>] = cmd.new_height
       /\ (last' = "redo" /\ index < Len(undo_stack) /\ undo_stack[index + 1].kind = "col")
            => LET cmd == undo_stack[index + 1]
               IN /\ view_col'[cmd.column] = cmd.new_width
                  /\ col_widths'[<<cmd.column, cmd.table>>] = cmd.new_width]_vars

\* the loop of file_open or of _save is between its first and its last turn
LoopRuns ==
    \/ loading.file # None /\ loading.pos > 0
    \/ saving.file # None /\ saving.temp # << >>

GridEmpty ==
    /\ \A k \in Keys : dict_grid[k] = None
    /\ cell_attributes = << >>
    /\ \A k \in DOMAIN row_heights : row_heights[k] = 0
    /\ \A k \in DOMAIN col_widths : col_widths[k] = 0
    /\ macros = ""

\* C14: when the progress dialog of file_open is cancelled, the grid is empty
\* once file_open has returned, however many lines had been read.
CancelledLoadLeavesNothing ==
    [][(last' = "file_open" /\ ghost'.arg[1]) => GridEmpty']_vars

\* C14: the load of b.pys was cancelled after its cell code line had been read
CancelledAfterCode ==
    /\ last = "file_open" /\ ghost.arg = <<TRUE, 2>>
    /\ last_file_input_path = "b.pys" /\ GridEmpty

\* C15: a _save that is cancelled, that fails to write or whose move fails
\* leaves every file and every signature as it was, keeps changed_since_save,
\* last_file_input_path and the window title, and leaves the grid unchanged.
FailedSaveChangesNothing ==
    [][last' = "file_save_fail"
          => /\ disk' = disk /\ sig' = sig
             /\ settings_changed' = settings_changed
             /\ last_file_input_path' = last_file_input_path
             /\ title' = title
             /\ <<shape, dict_grid, cell_attributes, row_heights, col_widths, macros>>'
                  = <<shape, dict_grid, cell_attributes, row_heights, col_widths, macros>>]_vars

\* C16: file_new, file_open and file_quit show the discard-changes dialog
\* whenever a cell edit, a format handler or a paste changed the grid since the
\* last save; on Cancel nothing is done, on Save the grid is on disk before the
\* operation runs, on Discard no file is written.
DiscardDialogGuards ==
    [][last' \in AskLabels
          => /\ ghost.dirty => ghost'.asked
             /\ (ghost'.asked /\ ghost'.arg[1] = "cancel") => prog' = prog
             /\ (ghost'.asked /\ ghost'.arg[1] = "save")
                   => \E f \in FileNames : disk'[f] = PysWriter(S)
             /\ (ghost'.asked /\ ghost'.arg[1] = "discard") => disk' = disk]_vars

\* C17: a paste into a selection whose bounding box is smaller than the
\* clipboard block writes every field of the block that lies inside the
\* grid, starting at the top left cell of the selection.
PasteFullyIntoSmallerSelection ==
    [][LET data == ghost'.arg
           bbox == Selection_get_grid_bbox(selection, shape)
           rows == bbox[3] - bbox[1] + 1
           cols == bbox[4] - bbox[2] + 1
       IN (/\ last' = "paste_selection"
           /\ rows <= Len(data) /\ cols <= Len(data[1])
           /\ rows < Len(data) \/ cols < Len(data[1]))
             => \A i \in 1..Len(data) : \A j \in 1..Len(data[i]) :
                   LET key == <<bbox[1] + i - 1, bbox[2] + j - 1, table>>
                   IN InShape(key, shape) => dict_grid'[key] = data[i][j]]_vars

\* C18: a file_open that was not cancelled, of a file that does not verify,
\* ends in safe mode; safe mode is left only by an approval, by file_new or
\* by a later file_open; and outside safe mode the grid holds no cell read
\* from a file that neither verified nor was approved.
SafeModeGuardsUnapproved ==
    [][/\ (last' = "file_open" /\ ~ghost'.arg[1] /\ ~Verify(S, loading.file)) => safe_mode'
       /\ (safe_mode /\ ~safe_mode')
             => last' \in {"approve", "file_new", "file_open_begin", "file_open"}
       /\ ~safe_mode' => \A c \in ghost'.unapproved : dict_grid'[c[1]] # c[2]]_vars

\* C19: a save in safe mode writes no signature file; a signature file is
\* written only by a save outside safe mode whose file could be read and for
\* which sign returned a signature, and then it is the signature of the file
\* just saved.
SignedOnlyOutsideSafeMode ==
    [][/\ (last' = "file_save" /\ safe_mode) => sig' = sig
       /\ \A f \in FileNames :
             sig'[f] # sig[f] => /\ last' = "file_save" /\ ~safe_mode
                                 /\ ghost'.arg = "ok" /\ f = saving.file
       /\ (last' = "file_save" /\ ~safe_mode /\ ghost'.arg = "ok")
             => sig'[saving.file] = disk'[saving.file]]_vars

\* C19: a file that did not verify was opened, changed and saved in safe
\* mode: the file is new and has no signature
SavedUnsignedInSafeMode ==
    /\ last = "file_save" /\ safe_mode /\ index > 0
    /\ last_file_input_path = "a.pys"
    /\ disk["a.pys"] # FileLines("a.pys") /\ sig["a.pys"] = NoSig

\* C21: undoing or redoing a row height or column width command pushes
\* nothing: the commands of the history stay as they are and only the cursor
\* moves; and after every handler undo_resizing_row and undo_resizing_column
\* are False.
ResizeByHistoryPushesNothing ==
    [][/\ ~undo_resizing_row' /\ ~undo_resizing_column'
       /\ (last' = "undo" /\ index > 0 /\ undo_stack[index].kind \in SizeLabels)
             => undo_stack' = undo_stack /\ index' = index - 1
       /\ (last' = "redo" /\ index < Len(undo_stack)
              /\ undo_stack[index + 1].kind \in SizeLabels)
             => undo_stack' = undo_stack /\ index' = index + 1]_vars

\* C21: the undo of a row resize has set the row of the view back to another
\* height, which raised sectionResized
ViewResizedByUndo ==
    /\ last = "undo" /\ ghost.kind = "row" /\ index = 0 /\ Len(undo_stack) = 1
    /\ undo_stack[1].kind = "row" /\ undo_stack[1].old_height # undo_stack[1].new_height
    /\ view_row[undo_stack[1].row] = undo_stack[1].old_height
    /\ row_heights[<<undo_stack[1].row, undo_stack[1].table>>] = undo_stack[1].old_height

\* the cells a paste into the selection writes: in the selection, inside its
\* bounding box, inside the grid
PasteTargets ==
    LET bbox == Selection_get_grid_bbox(selection, shape)
    IN {c \in selection : /\ bbox[1] <= c[1] /\ c[1] <= bbox[3]
                          /\ bbox[2] <= c[2] /\ c[2] <= bbox[4]
                          /\ InShape(<<c[1], c[2], table>>, shape)}

PasteToCurrentDoesNotWrap ==
    [][last' = "paste"
          => LET data == ghost'.arg
             IN \A key \in Keys :
                   LET i == key[1] - current[1] + 1
                       j == key[2] - current[2] + 1
                   IN dict_grid'[key] =
                          IF /\ key[3] = table /\ InShape(key, shape)
                             /\ i \in 1..Len(data) /\ j \in 1..Len(data[i])
                          THEN data[i][j]
                          ELSE dict_grid[key]]_vars

\* two fields were pasted at a cell of the last column: the second field has
\* no cell, and the cell left of the current cell is still empty
FieldBeyondGridDropped ==
    /\ last = "paste"
    /\ ghost.arg = << <<"a", "b">> >>
    /\ shape[2] = 2 /\ current = <<0, 1>>
    /\ dict_grid[<<0, 1, table>>] = "a"
    /\ dict_grid[<<0, 0, table>>] = None
    /\ dict_grid[<<1, 1, table>>] = None

\* C24: undoing a code command writes only to the cell, table included, at
\* which the command was created: after one edit of a cell, with or without a
\* switch to another table after it, an undo gives that cell the code it had
\* before the edit and changes the code of no other cell.
CodeCommandKeepsItsTable ==
    [][(/\ last' = "undo" /\ ghost.kind = "edit" /\ ~ghost.hist
        /\ ghost.fresh /\ ghost.pair = "no")
          => /\ dict_grid'[ghost.arg] = ghost.base_code
             /\ \A k \in Keys : k # ghost.arg => dict_grid'[k] = dict_grid[k]]_vars

\* C25: size commands merge only within one row (one column) of one table:
\* after a row is resized by the user, the command on top of the history that
\* holds the new height is a command for that row of the table on display,
\* so that its undo and redo write the height entry of that table only
\* (columns and their widths likewise).
SizeCommandsKeepTheirTable ==
    [][/\ last' = "row"
            => /\ index' > 0 /\ undo_stack'[index'].kind = "row"
               /\ undo_stack'[index'].row = ghost'.arg
               /\ undo_stack'[index'].new_height = ghost'.new_size
               /\ undo_stack'[index'].table = table'
       /\ last' = "col"
            => /\ index' > 0 /\ undo_stack'[index'].kind = "col"
               /\ undo_stack'[index'].column = ghost'.arg
               /\ undo_stack'[index'].new_width = ghost'.new_size
               /\ undo_stack'[index'].table = table']_vars

\* the border attributes of a cell as a read returns them
BorderOf(s, key) ==
    LET a == CellAttributes_read(s, key)
    IN <<a.bordercolor_bottom, a.bordercolor_right, a.borderwidth_bottom, a.borderwidth_right>>

\* C26: one on_line_color or on_borderwidth is one undo step: a single undo
\* directly after it gives every cell the bottom and the right border
\* attribute it had before the handler, and a single redo directly after that
\* undo gives every cell of the selection both new attributes again.
BorderActionIsOneUndoStep ==
    [][/\ (last \in BorderLabels /\ last' = "undo")
            => \A key \in Keys :
                  BorderOf(S', key) = <<ghost.view[key].bordercolor_bottom,
                                        ghost.view[key].bordercolor_right,
                                        ghost.view[key].borderwidth_bottom,
                                        ghost.view[key].borderwidth_right>>
       /\ (last = "undo" /\ ghost.kind \in BorderLabels /\ ghost.inv /\ last' = "redo")
            => \A c \in selection :
                  LET a == CellAttributes_read(S', <<c[1], c[2], table>>)
                  IN IF ghost.kind = "line_color"
                     THEN a.bordercolor_bottom = ghost.arg /\ a.bordercolor_right = ghost.arg
                     ELSE a.borderwidth_bottom = ghost.arg /\ a.borderwidth_right = ghost.arg]_vars

\* C27: a file_new that is cancelled in the grid shape dialog and a file_open
\* that is cancelled in the file dialog, with nothing saved on the way, leave
\* changed_since_save and the window title as they were.
AbortedWorkflowKeepsChangedFlag ==
    [][(/\ \/ last' = "file_new_cancel"
           \/ last' = "file_open_begin" /\ loading' = Idle
        /\ ghost'.arg[1] # "save")
          => settings_changed' = settings_changed /\ title' = title]_vars

\* C28: a file_open whose load is cancelled in the progress dialog leaves
\* last_file_input_path as it was before the file_open.
CancelledLoadKeepsFilePath ==
    [][(last' = "file_open" /\ ghost'.arg[1])
          => last_file_input_path' = last_file_input_path]_vars

====
